---------------------------- MODULE Spec2Model ----------------------------
(***************************************************************************)
(* Model of genai_perf/llm_inputs/llm_inputs.py: create_llm_inputs of      *)
(* LlmInputs and the helpers it calls.  One call is followed               *)
(* through its stages: argument validation, dataset acquisition (URL or    *)
(* synthetic), conversion to the generic dataset, conversion to the output *)
(* format, write of the output file and return.  Spec is one call with any *)
(* arguments, SpecRoles the role classification alone, SpecCalls a         *)
(* sequence of calls that share the class attributes.                      *)
(*                                                                         *)
(* JSON objects (python dicts) are functions with string domains, so that  *)
(* a missing key is a missing domain element.  JSON lists are sequences.   *)
(* A dataset row is an insertion-ordered python dict: it is a sequence of  *)
(* [header, content] entries with distinct headers (dict.items() order).   *)
(* Python indices stay 0-based as in the source; sequence access adds 1.   *)
(***************************************************************************)
EXTENDS Integers, Sequences, FiniteSets, TLC

(***************************************************************************)
(* Bounds of the model.                                                    *)
(***************************************************************************)
MaxRows == 2
MaxRowLen == 2
MaxFeatures == 3
MaxPrompts == 2

(***************************************************************************)
(* Class constants of LlmInputs.                                           *)
(***************************************************************************)
DEFAULT_STARTING_INDEX == 0
MINIMUM_STARTING_INDEX == 0
DEFAULT_LENGTH == 100
MINIMUM_LENGTH == 1
DEFAULT_TRTLLM_MAX_TOKENS == 256
DEFAULT_RANDOM_SEED == 0
DEFAULT_PROMPT_TOKENS_MEAN == 550
DEFAULT_PROMPT_TOKENS_STDDEV == 0
DEFAULT_EXPECTED_OUTPUT_TOKENS == 150

OPEN_ORCA == "openorca"
CNN_DAILY_MAIL == "cnn_dailymail"
OPEN_ORCA_URL == "https://datasets-server.huggingface.co/rows?dataset=Open-Orca%2FOpenOrca&config=default&split=train"
CNN_DAILYMAIL_URL == "https://datasets-server.huggingface.co/rows?dataset=cnn_dailymail&config=1.0.0&split=train"

\* class InputType / class OutputFormat.
InputType == {"URL", "FILE", "SYNTHETIC"}
OutputFormat == {"OPENAI_CHAT_COMPLETIONS", "OPENAI_COMPLETIONS", "TRTLLM", "VLLM"}

\* python None, and the empty dict {}
None == [none |-> TRUE]
EmptyDict == [k \in {} |-> k]

\* d[k] = v on a python dict
SetKey(d, k, v) == [x \in (DOMAIN d) \cup {k} |-> IF x = k THEN v ELSE d[x]]

(***************************************************************************)
(* The state: the locals and effects of the call of create_llm_inputs that *)
(* is running, the class attributes of LlmInputs that are mutable objects  *)
(* (the three {"data": []} templates and the URL registry), which outlive  *)
(* a call, and what is remembered of the calls that have ended.            *)
(***************************************************************************)
VARIABLES
    pc,                    \* the stage create_llm_inputs is at
    args,                  \* the arguments of the call
    configured_url,        \* the URL built by _create_configured_url
    dataset,               \* the raw dataset (response JSON or synthetic)
    generic_dataset_json,  \* the generic (canonical) dataset
    role_headers,          \* the role headers _determine_json_feature_roles returned
    json_in_pa_format,     \* the payload collection
    lookups,               \* dataset_url_map lookups done by this call
    fetches,               \* requests.get calls done by this call
    file,                  \* what this call wrote to the output file, None when nothing
    error,                 \* message of the exception raised, "" when none
    result,                \* the returned collection, None when nothing returned
    seed_calls,            \* the seeds random.seed was called with, in call order
    checks_evaluated,      \* the checks _check_for_valid_args has evaluated, in order
    EMPTY_JSON_IN_VLLM_PA_FORMAT,    \* class attribute, {"data": []}
    EMPTY_JSON_IN_TRTLLM_PA_FORMAT,  \* class attribute, {"data": []}
    EMPTY_JSON_IN_OPENAI_PA_FORMAT,  \* class attribute, {"data": []}
    dataset_url_map,       \* class attribute, {OPEN_ORCA: OPEN_ORCA_URL, CNN_DAILY_MAIL: CNN_DAILYMAIL_URL}
    calls,                 \* the number of calls that have ended
    first_call,            \* arguments, dataset and collection of the first call that returned
    other_since            \* since then a call with other arguments or another dataset has ended

class_attributes == <<EMPTY_JSON_IN_VLLM_PA_FORMAT, EMPTY_JSON_IN_TRTLLM_PA_FORMAT,
                      EMPTY_JSON_IN_OPENAI_PA_FORMAT, dataset_url_map>>
earlier_calls == <<calls, first_call, other_since>>

vars == <<pc, args, configured_url, dataset, generic_dataset_json, role_headers,
          json_in_pa_format, lookups, fetches, file, error, result, seed_calls,
          checks_evaluated, class_attributes, earlier_calls>>


(***************************************************************************)
(* _determine_json_feature_roles                                           *)
(***************************************************************************)
SYSTEM_ROLE_LIST == <<"system_prompt">>
USER_ROLE_LIST == <<"question", "article">>
TEXT_INPUT_LIST == <<"text_input">>

\* python `x in list`
InList(x, list) == \E i \in 1..Len(list) : list[i] = x

\* The variant of the loop body that files text_input under text_input_headers.
ClassifyFeatureIntoTextInput(roles, feature) ==
    LET r1 == IF InList(feature, SYSTEM_ROLE_LIST)
              THEN [roles EXCEPT !.system = Append(@, feature)] ELSE roles
        r2 == IF InList(feature, USER_ROLE_LIST)
              THEN [r1 EXCEPT !.user = Append(@, feature)] ELSE r1
    IN  IF InList(feature, TEXT_INPUT_LIST)
        THEN [r2 EXCEPT !.text_input = Append(@, feature)] ELSE r2

\* The body of the loop over the features: three independent membership tests.
ClassifyFeature(roles, feature) ==
    LET r1 == IF InList(feature, SYSTEM_ROLE_LIST)
              THEN [roles EXCEPT !.system = Append(@, feature)] ELSE roles
        r2 == IF InList(feature, USER_ROLE_LIST)
              THEN [r1 EXCEPT !.user = Append(@, feature)] ELSE r1
    IN  IF InList(feature, TEXT_INPUT_LIST)
        THEN [r2 EXCEPT !.user = Append(@, feature)] ELSE r2

RECURSIVE ClassifyFeatures(_, _, _)
ClassifyFeatures(features, index, roles) ==
    IF index >= Len(features) THEN roles
    ELSE ClassifyFeatures(features, index + 1,
                          ClassifyFeature(roles, features[index + 1]))

\* Returns (system_role_headers, user_role_headers, text_input_headers).
DetermineJsonFeatureRoles(dataset_json) ==
    LET empty == [system |-> <<>>, user |-> <<>>, text_input |-> <<>>]
    IN  IF "features" \in DOMAIN dataset_json
        THEN ClassifyFeatures(dataset_json["features"], 0, empty)
        ELSE empty

(***************************************************************************)
(* Per-header helpers of the formatters.                                   *)
(***************************************************************************)
\* The variant that emits a message for blank content too.
CreateNewOpenaiChatCompletionsMessageKeepingBlank(header, system_role_headers, user_role_headers, content) ==
    IF InList(header, system_role_headers)
    THEN [role |-> "system", content |-> content]
    ELSE IF InList(header, user_role_headers)
    THEN [role |-> "user", content |-> content]
    ELSE EmptyDict

CreateNewOpenaiChatCompletionsMessage(header, system_role_headers, user_role_headers, content) ==
    IF content = "" THEN EmptyDict
    ELSE IF InList(header, system_role_headers)
    THEN [role |-> "system", content |-> content]
    ELSE IF InList(header, user_role_headers)
    THEN [role |-> "user", content |-> content]
    ELSE EmptyDict

CreateNewPrompt(header, system_role_headers, user_role_headers, text_input_headers, content) ==
    IF \/ InList(header, system_role_headers)
       \/ InList(header, user_role_headers)
       \/ InList(header, text_input_headers)
    THEN content ELSE ""

\* The variant that takes the content of any header, classified or not.
CreateNewTextInputOfAnyHeader(header, system_role_headers, user_role_headers, text_input_headers, content) ==
    content

CreateNewTextInput(header, system_role_headers, user_role_headers, text_input_headers, content) ==
    IF \/ InList(header, system_role_headers)
       \/ InList(header, user_role_headers)
       \/ InList(header, text_input_headers)
    THEN content ELSE ""

AddNewMessageToJson(pa_json, index, new_message) ==
    IF DOMAIN new_message # {}
    THEN [pa_json EXCEPT !.data[index + 1].payload[1].messages =
                             Append(@, new_message)]
    ELSE pa_json

\* The variant that always joins with a space, also onto an empty field.
AddNewTextInputToJsonAlwaysSpace(pa_json, index, new_text_input) ==
    IF new_text_input # ""
    THEN [pa_json EXCEPT !.data[index + 1].text_input[1] =
                             @ \o " " \o new_text_input]
    ELSE pa_json

AddNewTextInputToJson(pa_json, index, new_text_input) ==
    IF new_text_input # ""
    THEN IF pa_json.data[index + 1].text_input[1] # ""
         THEN [pa_json EXCEPT !.data[index + 1].text_input[1] =
                                  @ \o " " \o new_text_input]
         ELSE [pa_json EXCEPT !.data[index + 1].text_input[1] = new_text_input]
    ELSE pa_json

\* The variant that appends to the prompt without the separating space.
AddNewPromptToJsonWithoutSpace(pa_json, index, new_prompt) ==
    IF new_prompt # ""
    THEN [pa_json EXCEPT !.data[index + 1].payload[1].prompt[1] = @ \o new_prompt]
    ELSE pa_json

AddNewPromptToJson(pa_json, index, new_prompt) ==
    IF new_prompt # ""
    THEN IF pa_json.data[index + 1].payload[1].prompt[1] # ""
         THEN [pa_json EXCEPT !.data[index + 1].payload[1].prompt[1] =
                                  @ \o " " \o new_prompt]
         ELSE [pa_json EXCEPT !.data[index + 1].payload[1].prompt[1] = new_prompt]
    ELSE pa_json

(***************************************************************************)
(* Optional and required tags.                                             *)
(***************************************************************************)
AddOptionalTagsToOpenaiJson(pa_json, index, add_model_name, add_stream, model_name) ==
    LET p1 == IF add_model_name
              THEN [pa_json EXCEPT !.data[index + 1].payload[1] =
                                       SetKey(@, "model", model_name)]
              ELSE pa_json
    IN  IF add_stream
        THEN [p1 EXCEPT !.data[index + 1].payload[1] = SetKey(@, "stream", TRUE)]
        ELSE p1

\* The variant that tests add_model_name for both tags.
AddOptionalTagsToVllmJsonStreamWithModel(pa_json, index, add_model_name, add_stream, model_name) ==
    LET p1 == IF add_model_name
              THEN [pa_json EXCEPT !.data[index + 1] = SetKey(@, "model", model_name)]
              ELSE pa_json
    IN  IF add_model_name
        THEN [p1 EXCEPT !.data[index + 1] = SetKey(@, "stream", <<TRUE>>)]
        ELSE p1

AddOptionalTagsToVllmJson(pa_json, index, add_model_name, add_stream, model_name) ==
    LET p1 == IF add_model_name
              THEN [pa_json EXCEPT !.data[index + 1] = SetKey(@, "model", model_name)]
              ELSE pa_json
    IN  IF add_stream
        THEN [p1 EXCEPT !.data[index + 1] = SetKey(@, "stream", <<TRUE>>)]
        ELSE p1

AddOptionalTagsToTrtllmJson(pa_json, index, add_model_name, add_stream, model_name) ==
    LET p1 == IF add_model_name
              THEN [pa_json EXCEPT !.data[index + 1] = SetKey(@, "model", model_name)]
              ELSE pa_json
    IN  IF add_stream
        THEN [p1 EXCEPT !.data[index + 1] = SetKey(@, "stream", <<TRUE>>)]
        ELSE p1

AddRequiredTagsToTrtllmJson(pa_json, index) ==
    [pa_json EXCEPT !.data[index + 1] =
                        SetKey(@, "max_tokens", <<DEFAULT_TRTLLM_MAX_TOKENS>>)]

\* What filling the object a _create_empty_*_pa_json returned leaves in the class
\* attribute.  The variant that returns the class attribute itself, not a copy:
\* what the loop appends is then appended to the attribute.
TemplateAfterFillingWithoutDeepcopy(template, pa_json) == pa_json

\* deepcopy(template) shares no object with the template: the attribute stays as it is.
TemplateAfterFilling(template, pa_json) == template

\* deepcopy of the class-level templates
CreateEmptyOpenaiPaJson == EMPTY_JSON_IN_OPENAI_PA_FORMAT
CreateEmptyVllmPaJson == EMPTY_JSON_IN_VLLM_PA_FORMAT
CreateEmptyTrtllmPaJson == EMPTY_JSON_IN_TRTLLM_PA_FORMAT

(***************************************************************************)
(* The four _populate_*_output_json loops.  Each outer operator is the loop *)
(* over enumerate(dataset_json["rows"]); each inner one the loop over      *)
(* entry.items(), position k of the row's entries.                         *)
(***************************************************************************)
RECURSIVE ChatCompletionsEntryLoop(_, _, _, _, _, _)
ChatCompletionsEntryLoop(pa_json, index, entry, k, system_role_headers, user_role_headers) ==
    IF k > Len(entry) THEN pa_json
    ELSE LET new_message == CreateNewOpenaiChatCompletionsMessage(
                                entry[k].header, system_role_headers,
                                user_role_headers, entry[k].content)
         IN  ChatCompletionsEntryLoop(AddNewMessageToJson(pa_json, index, new_message),
                                      index, entry, k + 1,
                                      system_role_headers, user_role_headers)

\* The variant of the loop body that files every row under index 0.
ChatCompletionsRowAtIndexZero(pa_json, index, entry, system_role_headers, user_role_headers, add_model_name, add_stream, model_name) ==
    LET p1 == [pa_json EXCEPT !.data = Append(@, [payload |-> <<>>])]
        p2 == [p1 EXCEPT !.data[1].payload = Append(@, [messages |-> <<>>])]
        p3 == ChatCompletionsEntryLoop(p2, 0, entry, 1,
                                       system_role_headers, user_role_headers)
    IN  AddOptionalTagsToOpenaiJson(p3, 0, add_model_name, add_stream, model_name)

ChatCompletionsRow(pa_json, index, entry, system_role_headers, user_role_headers, add_model_name, add_stream, model_name) ==
    LET p1 == [pa_json EXCEPT !.data = Append(@, [payload |-> <<>>])]
        p2 == [p1 EXCEPT !.data[index + 1].payload = Append(@, [messages |-> <<>>])]
        p3 == ChatCompletionsEntryLoop(p2, index, entry, 1,
                                       system_role_headers, user_role_headers)
    IN  AddOptionalTagsToOpenaiJson(p3, index, add_model_name, add_stream, model_name)

RECURSIVE ChatCompletionsRowLoop(_, _, _, _, _, _, _, _)
ChatCompletionsRowLoop(pa_json, index, rows, system_role_headers, user_role_headers, add_model_name, add_stream, model_name) ==
    IF index >= Len(rows) THEN pa_json
    ELSE ChatCompletionsRowLoop(
             ChatCompletionsRow(pa_json, index, rows[index + 1], system_role_headers,
                                user_role_headers, add_model_name, add_stream, model_name),
             index + 1, rows, system_role_headers, user_role_headers,
             add_model_name, add_stream, model_name)

PopulateOpenaiChatCompletionsOutputJson(dataset_json, system_role_headers, user_role_headers, add_model_name, add_stream, model_name) ==
    ChatCompletionsRowLoop(CreateEmptyOpenaiPaJson, 0, dataset_json["rows"],
                           system_role_headers, user_role_headers,
                           add_model_name, add_stream, model_name)

RECURSIVE CompletionsEntryLoop(_, _, _, _, _, _, _)
CompletionsEntryLoop(pa_json, index, entry, k, system_role_headers, user_role_headers, text_input_headers) ==
    IF k > Len(entry) THEN pa_json
    ELSE LET new_prompt == CreateNewPrompt(entry[k].header, system_role_headers,
                                           user_role_headers, text_input_headers,
                                           entry[k].content)
         IN  CompletionsEntryLoop(AddNewPromptToJson(pa_json, index, new_prompt),
                                  index, entry, k + 1, system_role_headers,
                                  user_role_headers, text_input_headers)

CompletionsRow(pa_json, index, entry, system_role_headers, user_role_headers, text_input_headers, add_model_name, add_stream, model_name) ==
    LET p1 == [pa_json EXCEPT !.data = Append(@, [payload |-> <<>>])]
        p2 == [p1 EXCEPT !.data[index + 1].payload = Append(@, [prompt |-> <<"">>])]
        p3 == CompletionsEntryLoop(p2, index, entry, 1, system_role_headers,
                                   user_role_headers, text_input_headers)
    IN  AddOptionalTagsToOpenaiJson(p3, index, add_model_name, add_stream, model_name)

RECURSIVE CompletionsRowLoop(_, _, _, _, _, _, _, _, _)
CompletionsRowLoop(pa_json, index, rows, system_role_headers, user_role_headers, text_input_headers, add_model_name, add_stream, model_name) ==
    IF index >= Len(rows) THEN pa_json
    ELSE CompletionsRowLoop(
             CompletionsRow(pa_json, index, rows[index + 1], system_role_headers,
                            user_role_headers, text_input_headers,
                            add_model_name, add_stream, model_name),
             index + 1, rows, system_role_headers, user_role_headers,
             text_input_headers, add_model_name, add_stream, model_name)

PopulateOpenaiCompletionsOutputJson(dataset_json, system_role_headers, user_role_headers, text_input_headers, add_model_name, add_stream, model_name) ==
    CompletionsRowLoop(CreateEmptyOpenaiPaJson, 0, dataset_json["rows"],
                       system_role_headers, user_role_headers, text_input_headers,
                       add_model_name, add_stream, model_name)

\* The loop over entry.items() shared in shape by the vllm and trtllm formatters.
RECURSIVE TextInputEntryLoop(_, _, _, _, _, _, _)
TextInputEntryLoop(pa_json, index, entry, k, system_role_headers, user_role_headers, text_input_headers) ==
    IF k > Len(entry) THEN pa_json
    ELSE LET new_text_input == CreateNewTextInput(entry[k].header, system_role_headers,
                                                  user_role_headers, text_input_headers,
                                                  entry[k].content)
         IN  TextInputEntryLoop(AddNewTextInputToJson(pa_json, index, new_text_input),
                                index, entry, k + 1, system_role_headers,
                                user_role_headers, text_input_headers)

VllmRow(pa_json, index, entry, system_role_headers, user_role_headers, text_input_headers, add_model_name, add_stream, model_name) ==
    LET p1 == [pa_json EXCEPT !.data = Append(@, [text_input |-> <<"">>])]
        p2 == TextInputEntryLoop(p1, index, entry, 1, system_role_headers,
                                 user_role_headers, text_input_headers)
    IN  AddOptionalTagsToVllmJson(p2, index, add_model_name, add_stream, model_name)

RECURSIVE VllmRowLoop(_, _, _, _, _, _, _, _, _)
VllmRowLoop(pa_json, index, rows, system_role_headers, user_role_headers, text_input_headers, add_model_name, add_stream, model_name) ==
    IF index >= Len(rows) THEN pa_json
    ELSE VllmRowLoop(
             VllmRow(pa_json, index, rows[index + 1], system_role_headers,
                     user_role_headers, text_input_headers,
                     add_model_name, add_stream, model_name),
             index + 1, rows, system_role_headers, user_role_headers,
             text_input_headers, add_model_name, add_stream, model_name)

PopulateVllmOutputJson(dataset_json, system_role_headers, user_role_headers, text_input_headers, add_model_name, add_stream, model_name) ==
    VllmRowLoop(CreateEmptyVllmPaJson, 0, dataset_json["rows"],
                system_role_headers, user_role_headers, text_input_headers,
                add_model_name, add_stream, model_name)

\* The variant of the loop body that leaves the required tags out.
TrtllmRowWithoutRequiredTags(pa_json, index, entry, system_role_headers, user_role_headers, text_input_headers, add_model_name, add_stream, model_name) ==
    LET p1 == [pa_json EXCEPT !.data = Append(@, [text_input |-> <<"">>])]
        p2 == TextInputEntryLoop(p1, index, entry, 1, system_role_headers,
                                 user_role_headers, text_input_headers)
    IN  AddOptionalTagsToTrtllmJson(p2, index, add_model_name, add_stream, model_name)

TrtllmRow(pa_json, index, entry, system_role_headers, user_role_headers, text_input_headers, add_model_name, add_stream, model_name) ==
    LET p1 == [pa_json EXCEPT !.data = Append(@, [text_input |-> <<"">>])]
        p2 == TextInputEntryLoop(p1, index, entry, 1, system_role_headers,
                                 user_role_headers, text_input_headers)
        p3 == AddRequiredTagsToTrtllmJson(p2, index)
    IN  AddOptionalTagsToTrtllmJson(p3, index, add_model_name, add_stream, model_name)

RECURSIVE TrtllmRowLoop(_, _, _, _, _, _, _, _, _)
TrtllmRowLoop(pa_json, index, rows, system_role_headers, user_role_headers, text_input_headers, add_model_name, add_stream, model_name) ==
    IF index >= Len(rows) THEN pa_json
    ELSE TrtllmRowLoop(
             TrtllmRow(pa_json, index, rows[index + 1], system_role_headers,
                       user_role_headers, text_input_headers,
                       add_model_name, add_stream, model_name),
             index + 1, rows, system_role_headers, user_role_headers,
             text_input_headers, add_model_name, add_stream, model_name)

PopulateTrtllmOutputJson(dataset_json, system_role_headers, user_role_headers, text_input_headers, add_model_name, add_stream, model_name) ==
    TrtllmRowLoop(CreateEmptyTrtllmPaJson, 0, dataset_json["rows"],
                  system_role_headers, user_role_headers, text_input_headers,
                  add_model_name, add_stream, model_name)

(***************************************************************************)
(* _convert_generic_json_to_*_format and the dispatch on the output format. *)
(***************************************************************************)
ConvertGenericJsonToOpenaiChatCompletionsFormat(dataset_json, add_model_name, add_stream, model_name) ==
    LET roles == DetermineJsonFeatureRoles(dataset_json)
    IN  PopulateOpenaiChatCompletionsOutputJson(dataset_json, roles.system, roles.user,
                                                add_model_name, add_stream, model_name)

ConvertGenericJsonToOpenaiCompletionsFormat(dataset_json, add_model_name, add_stream, model_name) ==
    LET roles == DetermineJsonFeatureRoles(dataset_json)
    IN  PopulateOpenaiCompletionsOutputJson(dataset_json, roles.system, roles.user,
                                            roles.text_input,
                                            add_model_name, add_stream, model_name)

ConvertGenericJsonToVllmFormat(dataset_json, add_model_name, add_stream, model_name) ==
    LET roles == DetermineJsonFeatureRoles(dataset_json)
    IN  PopulateVllmOutputJson(dataset_json, roles.system, roles.user, roles.text_input,
                               add_model_name, add_stream, model_name)

ConvertGenericJsonToTrtllmFormat(dataset_json, add_model_name, add_stream, model_name) ==
    LET roles == DetermineJsonFeatureRoles(dataset_json)
    IN  PopulateTrtllmOutputJson(dataset_json, roles.system, roles.user, roles.text_input,
                                 add_model_name, add_stream, model_name)

\* The output of _convert_generic_json_to_output_format for a supported format.
ConvertGenericJsonToOutputFormat(output_format, generic_dataset, add_model_name, add_stream, model_name) ==
    IF output_format = "OPENAI_CHAT_COMPLETIONS"
    THEN ConvertGenericJsonToOpenaiChatCompletionsFormat(
             generic_dataset, add_model_name, add_stream, model_name)
    ELSE IF output_format = "OPENAI_COMPLETIONS"
    THEN ConvertGenericJsonToOpenaiCompletionsFormat(
             generic_dataset, add_model_name, add_stream, model_name)
    ELSE IF output_format = "VLLM"
    THEN ConvertGenericJsonToVllmFormat(
             generic_dataset, add_model_name, add_stream, model_name)
    ELSE ConvertGenericJsonToTrtllmFormat(
             generic_dataset, add_model_name, add_stream, model_name)

(***************************************************************************)
(* _convert_dataset_to_generic_input_json                                  *)
(***************************************************************************)
\* [feature["name"] for feature in features]
RECURSIVE FeatureNamesOf(_)
FeatureNamesOf(features) ==
    IF features = <<>> THEN <<>>
    ELSE <<Head(features)["name"]>> \o FeatureNamesOf(Tail(features))

\* The variant that always sets the features key, to [] when the raw dataset has none.
AddFeaturesToGenericJsonDefaultingToEmpty(generic_input_json, dataset_json) ==
    IF "features" \in DOMAIN dataset_json
    THEN SetKey(generic_input_json, "features", FeatureNamesOf(dataset_json["features"]))
    ELSE SetKey(generic_input_json, "features", <<>>)

AddFeaturesToGenericJson(generic_input_json, dataset_json) ==
    IF "features" \in DOMAIN dataset_json
    THEN SetKey(generic_input_json, "features", FeatureNamesOf(dataset_json["features"]))
    ELSE generic_input_json

\* [row["row"] for row in rows]
RECURSIVE RowsOf(_)
RowsOf(rows) ==
    IF rows = <<>> THEN <<>>
    ELSE <<Head(rows)["row"]>> \o RowsOf(Tail(rows))

AddRowsToGenericJson(generic_input_json, dataset_json) ==
    SetKey(generic_input_json, "rows", RowsOf(dataset_json["rows"]))

ConvertDatasetToGenericInputJson(dataset_json) ==
    AddRowsToGenericJson(AddFeaturesToGenericJson(EmptyDict, dataset_json), dataset_json)

(***************************************************************************)
(* Inputs: the arguments of a call and what the dataset server answers.    *)
(***************************************************************************)
DEFAULT_NUM_OF_OUTPUT_PROMPTS == 100

\* An argument declared int may be passed any python value: [isint, val] is an
\* int of value val, or a value that is no int (val then has no meaning).
IntArg(v) == [isint |-> TRUE, val |-> v]
NotAnInt == [isint |-> FALSE, val |-> 0]
StartingIndexes == {IntArg(-1), IntArg(DEFAULT_STARTING_INDEX), NotAnInt}
Lengths == {IntArg(0), IntArg(DEFAULT_LENGTH), NotAnInt}
DatasetNames == {"", OPEN_ORCA, "unknown_dataset"}
\* "OTHER" is any value that is none of the four members of OutputFormat (the
\* else branch of the format dispatch).
OutputFormats == OutputFormat \cup {"OTHER"}
ModelNames == {"gpt2"}

UrlOrFileArgs ==
    [input_type : {"URL", "FILE"}, output_format : OutputFormats,
     dataset_name : DatasetNames, model_name : ModelNames,
     starting_index : StartingIndexes, length : Lengths,
     prompt_tokens_mean : {DEFAULT_PROMPT_TOKENS_MEAN},
     prompt_tokens_stddev : {DEFAULT_PROMPT_TOKENS_STDDEV},
     expected_output_tokens : {DEFAULT_EXPECTED_OUTPUT_TOKENS},
     random_seed : {DEFAULT_RANDOM_SEED},
     num_of_output_prompts : {DEFAULT_NUM_OF_OUTPUT_PROMPTS},
     add_model_name : BOOLEAN, add_stream : BOOLEAN]

SyntheticArgs ==
    [input_type : {"SYNTHETIC"}, output_format : OutputFormats,
     dataset_name : {""}, model_name : ModelNames,
     starting_index : StartingIndexes, length : Lengths,
     prompt_tokens_mean : {DEFAULT_PROMPT_TOKENS_MEAN},
     prompt_tokens_stddev : {DEFAULT_PROMPT_TOKENS_STDDEV},
     expected_output_tokens : {DEFAULT_EXPECTED_OUTPUT_TOKENS},
     random_seed : {DEFAULT_RANDOM_SEED, DEFAULT_RANDOM_SEED + 1},
     num_of_output_prompts : 0..MaxPrompts,
     add_model_name : BOOLEAN, add_stream : BOOLEAN]

Args == UrlOrFileArgs \cup SyntheticArgs

\* The columns of the served datasets in the order the server declares them, and
\* the texts a cell of each column can hold: the two text columns can be empty.
Headers == {"system_prompt", "question", "id"}
HeaderOrder == <<"system_prompt", "question", "id">>
CellTexts == [system_prompt |-> {"", "hello"}, question |-> {"", "world"}, id |-> {"7"}]
\* The feature names role classification is tried on.
FeatureNames == {"system_prompt", "question", "article", "text_input", "id"}

SeqsUpTo(S, n) == UNION {[1..k -> S] : k \in 0..n}
IsInjective(q) == \A i, j \in 1..Len(q) : q[i] = q[j] => i = j

\* The key orders of the rows of a served dataset (its rows are dicts with these
\* keys), the rows over one key order, and the "rows" lists.
Columns == {c \in SeqsUpTo(Headers, MaxRowLen) : IsInjective(c)}
RowsOver(c) == {[k \in 1..Len(c) |-> [header |-> c[k], content |-> t[k]]] : t \in {u \in [1..Len(c) -> UNION {CellTexts[h] : h \in Headers}] : \A k \in 1..Len(c) : u[k] \in CellTexts[c[k]]}}
ServedRows == UNION {{[k \in 1..Len(q) |-> [row |-> q[k]]] : q \in SeqsUpTo(RowsOver(c), MaxRows)} : c \in Columns}
\* The "features" lists: any of the columns, declared in the server's order.
ServedFeatures == {[k \in 1..Len(f) |-> [name |-> f[k]]] : f \in {SelectSeq(HeaderOrder, LAMBDA h : h \in S) : S \in SUBSET Headers}}

\* What response.json() can be: rows with or without a features key, or an error.
ServedJson ==
    {[features |-> f, rows |-> r] : f \in ServedFeatures, r \in ServedRows}
    \cup {[rows |-> r] : r \in ServedRows}
    \cup {[error |-> "The dataset does not exist."]}

Init ==
    /\ pc = "idle"
    /\ args = None
    /\ configured_url = None
    /\ dataset = None
    /\ generic_dataset_json = None
    /\ role_headers = None
    /\ json_in_pa_format = None
    /\ lookups = 0
    /\ fetches = 0
    /\ file = None
    /\ error = ""
    /\ result = None
    /\ seed_calls = <<>>
    /\ checks_evaluated = <<>>
    /\ EMPTY_JSON_IN_VLLM_PA_FORMAT = [data |-> <<>>]
    /\ EMPTY_JSON_IN_TRTLLM_PA_FORMAT = [data |-> <<>>]
    /\ EMPTY_JSON_IN_OPENAI_PA_FORMAT = [data |-> <<>>]
    /\ dataset_url_map = (OPEN_ORCA :> OPEN_ORCA_URL) @@ (CNN_DAILY_MAIL :> CNN_DAILYMAIL_URL)
    /\ calls = 0
    /\ first_call = None
    /\ other_since = FALSE

\* raise GenAIPerfException(message): the call ends, nothing is returned.
Raise(message) ==
    /\ pc' = "failed"
    /\ error' = message

(***************************************************************************)
(* create_llm_inputs, stage by stage.                                      *)
(***************************************************************************)
\* A caller invokes create_llm_inputs with arguments of the set arguments.
CreateLlmInputsWith(arguments) ==
    /\ pc = "idle"
    /\ \E a \in arguments : args' = a
    /\ pc' = "check_args"
    /\ UNCHANGED <<configured_url, dataset, generic_dataset_json, role_headers, json_in_pa_format,
                   lookups, fetches, file, error, result, seed_calls, checks_evaluated,
                   class_attributes, earlier_calls>>

CreateLlmInputs == CreateLlmInputsWith(Args)

\* The variant that leaves the check of length out.
CheckForValidArgsMessageWithoutLength(input_type, dataset_name, starting_index, length) ==
    IF input_type = "URL" /\ dataset_name = ""
    THEN "Input type is URL, but dataset_name is not specified."
    ELSE IF ~starting_index.isint
    THEN "starting_index: {starting_index} must be an integer."
    ELSE IF starting_index.val < MINIMUM_STARTING_INDEX
    THEN "starting_index: {starting_index} must be larger than 0."
    ELSE ""

\* The three checks: the message of the exception a check raises, "" when it passes.
CheckForDatasetNameIfInputTypeIsUrl(input_type, dataset_name) ==
    IF input_type = "URL" /\ dataset_name = ""
    THEN "Input type is URL, but dataset_name is not specified."
    ELSE ""

CheckForValidStartingIndex(starting_index) ==
    IF ~starting_index.isint
    THEN "starting_index: {starting_index} must be an integer."
    ELSE IF starting_index.val < MINIMUM_STARTING_INDEX
    THEN "starting_index: {starting_index} must be larger than 0."
    ELSE ""

CheckForValidLength(length) ==
    IF ~length.isint
    THEN "length: {length} must be an integer."
    ELSE IF length.val < MINIMUM_LENGTH
    THEN "starting_index: {length} must be larger than 1."
    ELSE ""

\* The variant of the try block that checks length before starting_index.
ChecksOfCheckForValidArgsLengthFirst(input_type, dataset_name, starting_index, length) ==
    <<[check |-> "_check_for_dataset_name_if_input_type_is_url",
       message |-> CheckForDatasetNameIfInputTypeIsUrl(input_type, dataset_name)],
      [check |-> "_check_for_valid_length",
       message |-> CheckForValidLength(length)],
      [check |-> "_check_for_valid_starting_index",
       message |-> CheckForValidStartingIndex(starting_index)]>>

\* The statements of the try block of _check_for_valid_args, in their order.
ChecksOfCheckForValidArgs(input_type, dataset_name, starting_index, length) ==
    <<[check |-> "_check_for_dataset_name_if_input_type_is_url",
       message |-> CheckForDatasetNameIfInputTypeIsUrl(input_type, dataset_name)],
      [check |-> "_check_for_valid_starting_index",
       message |-> CheckForValidStartingIndex(starting_index)],
      [check |-> "_check_for_valid_length",
       message |-> CheckForValidLength(length)]>>

\* Statements run one after the other until one raises: the checks evaluated so
\* far and the message of the one that raised, "" when all passed.
RECURSIVE RunChecks(_, _, _)
RunChecks(checks, k, evaluated) ==
    IF k > Len(checks) THEN [message |-> "", evaluated |-> evaluated]
    ELSE IF checks[k].message # ""
    THEN [message |-> checks[k].message, evaluated |-> Append(evaluated, checks[k].check)]
    ELSE RunChecks(checks, k + 1, Append(evaluated, checks[k].check))

\* The message of the first failing check of _check_for_valid_args, "" when all pass.
CheckForValidArgsMessage(input_type, dataset_name, starting_index, length) ==
    RunChecks(ChecksOfCheckForValidArgs(input_type, dataset_name, starting_index, length),
              1, <<>>).message

CheckForValidArgs ==
    /\ pc = "check_args"
    /\ LET message == CheckForValidArgsMessage(args.input_type, args.dataset_name,
                                               args.starting_index, args.length)
       IN  IF message # "" THEN Raise(message)
           ELSE /\ pc' = "select_source"
                /\ UNCHANGED error
    /\ checks_evaluated' =
           RunChecks(ChecksOfCheckForValidArgs(args.input_type, args.dataset_name,
                                               args.starting_index, args.length),
                     1, <<>>).evaluated
    /\ UNCHANGED <<args, configured_url, dataset, generic_dataset_json, role_headers,
                   json_in_pa_format, lookups, fetches, file, result, seed_calls,
                   class_attributes, earlier_calls>>

\* The dispatch on input_type; a FILE source is not supported.
SelectSource ==
    /\ pc = "select_source"
    /\ IF args.input_type = "URL" THEN pc' = "resolve_url" /\ UNCHANGED error
       ELSE IF args.input_type = "SYNTHETIC" THEN pc' = "synthetic" /\ UNCHANGED error
       ELSE Raise("Using a file to supply LLM Input is not supported at this time")
    /\ UNCHANGED <<args, configured_url, dataset, generic_dataset_json, role_headers,
                   json_in_pa_format, lookups, fetches, file, result, seed_calls, checks_evaluated,
                   class_attributes, earlier_calls>>

CreateConfiguredUrl(url, starting_index, length) ==
    [url |-> url, offset |-> starting_index, length |-> length]

\* The variant that falls back to the OpenOrca URL for a name the map lacks.
ResolveUrlWithDefault ==
    /\ pc = "resolve_url"
    /\ lookups' = lookups + 1
    /\ configured_url' = CreateConfiguredUrl(
                             IF args.dataset_name \in DOMAIN dataset_url_map
                             THEN dataset_url_map[args.dataset_name] ELSE OPEN_ORCA_URL,
                             args.starting_index.val, args.length.val)
    /\ pc' = "download"
    /\ UNCHANGED <<args, dataset, generic_dataset_json, role_headers, json_in_pa_format,
                   fetches, file, error, result, seed_calls, checks_evaluated,
                   class_attributes, earlier_calls>>

\* _resolve_url and _create_configured_url.
ResolveUrl ==
    /\ pc = "resolve_url"
    /\ lookups' = lookups + 1
    /\ IF args.dataset_name \in DOMAIN dataset_url_map
       THEN /\ configured_url' = CreateConfiguredUrl(dataset_url_map[args.dataset_name],
                                                     args.starting_index.val,
                                                     args.length.val)
            /\ pc' = "download"
            /\ UNCHANGED error
       ELSE /\ Raise("{dataset_name} does not have a corresponding URL in the dataset_url_map.")
            /\ UNCHANGED configured_url
    /\ UNCHANGED <<args, dataset, generic_dataset_json, role_headers, json_in_pa_format,
                   fetches, file, result, seed_calls, checks_evaluated,
                   class_attributes, earlier_calls>>

\* _download_dataset / _query_server: one requests.get, which raises or answers
\* with a JSON of the set served.
QueryServerAnswering(served) ==
    /\ pc = "download"
    /\ fetches' = fetches + 1
    /\ \/ /\ Raise("Invalid URL: {url}")
          /\ UNCHANGED dataset
       \/ /\ \E json \in served : dataset' = json
          /\ pc' = "url_to_generic"
          /\ UNCHANGED error
    /\ UNCHANGED <<args, configured_url, generic_dataset_json, role_headers, json_in_pa_format,
                   lookups, file, result, seed_calls, checks_evaluated,
                   class_attributes, earlier_calls>>

QueryServer == QueryServerAnswering(ServedJson)

\* _convert_input_url_dataset_to_generic_json
ConvertInputUrlDatasetToGenericJson ==
    /\ pc = "url_to_generic"
    /\ IF "error" \in DOMAIN dataset
       THEN /\ Raise(dataset["error"])
            /\ UNCHANGED generic_dataset_json
       ELSE /\ generic_dataset_json' = ConvertDatasetToGenericInputJson(dataset)
            /\ pc' = "convert_output"
            /\ UNCHANGED error
    /\ UNCHANGED <<args, configured_url, dataset, role_headers, json_in_pa_format,
                   lookups, fetches, file, result, seed_calls, checks_evaluated,
                   class_attributes, earlier_calls>>

\* SyntheticPromptGenerator.create_synthetic_prompt after random.seed(random_seed):
\* a text that the seed and the three token parameters determine.
SyntheticWords == <<"alpha", "beta", "gamma", "delta">>
CreateSyntheticPrompt(prompt_tokens_mean, prompt_tokens_stddev, expected_output_tokens, random_seed) ==
    SyntheticWords[(random_seed % Len(SyntheticWords)) + 1]

\* The variant that seeds every invocation with random_seed itself.
SyntheticRowsWithOneSeed(acc, index, num_of_output_prompts, prompt_tokens_mean, prompt_tokens_stddev, expected_output_tokens, random_seed) ==
    [rows |-> [k \in 1..num_of_output_prompts |->
                  [row |-> <<[header |-> "text_input",
                              content |-> CreateSyntheticPrompt(prompt_tokens_mean, prompt_tokens_stddev,
                                                                expected_output_tokens, random_seed)]>>]],
     seeds |-> [k \in 1..num_of_output_prompts |-> random_seed]]

\* The loop over range(0, num_of_output_prompts).  Each turn calls
\* _create_synthetic_prompt, which seeds the random module with random_seed + index
\* and then invokes the generator: acc holds the rows appended and the seeds used.
RECURSIVE SyntheticRows(_, _, _, _, _, _, _)
SyntheticRows(acc, index, num_of_output_prompts, prompt_tokens_mean, prompt_tokens_stddev, expected_output_tokens, random_seed) ==
    IF index >= num_of_output_prompts THEN acc
    ELSE LET synthetic_prompt == CreateSyntheticPrompt(prompt_tokens_mean, prompt_tokens_stddev,
                                                       expected_output_tokens, random_seed + index)
         IN  SyntheticRows(
                 [rows |-> Append(acc.rows, [row |-> <<[header |-> "text_input", content |-> synthetic_prompt]>>]),
                  seeds |-> Append(acc.seeds, random_seed + index)],
                 index + 1, num_of_output_prompts, prompt_tokens_mean, prompt_tokens_stddev,
                 expected_output_tokens, random_seed)

\* What the loop leaves: the rows of the dataset and the seeds of the invocations.
SyntheticLoop(prompt_tokens_mean, prompt_tokens_stddev, expected_output_tokens, num_of_output_prompts, random_seed) ==
    SyntheticRows([rows |-> <<>>, seeds |-> <<>>], 0, num_of_output_prompts, prompt_tokens_mean,
                  prompt_tokens_stddev, expected_output_tokens, random_seed)

GetInputDatasetFromSyntheticValue(prompt_tokens_mean, prompt_tokens_stddev, expected_output_tokens, num_of_output_prompts, random_seed) ==
    [features |-> <<[name |-> "text_input"]>>,
     rows |-> SyntheticLoop(prompt_tokens_mean, prompt_tokens_stddev, expected_output_tokens,
                            num_of_output_prompts, random_seed).rows]

\* _get_input_dataset_from_synthetic
GetInputDatasetFromSynthetic ==
    /\ pc = "synthetic"
    /\ dataset' = GetInputDatasetFromSyntheticValue(
                      args.prompt_tokens_mean, args.prompt_tokens_stddev,
                      args.expected_output_tokens, args.num_of_output_prompts,
                      args.random_seed)
    /\ seed_calls' = seed_calls \o SyntheticLoop(
                         args.prompt_tokens_mean, args.prompt_tokens_stddev,
                         args.expected_output_tokens, args.num_of_output_prompts,
                         args.random_seed).seeds
    /\ pc' = "synthetic_to_generic"
    /\ UNCHANGED <<args, configured_url, generic_dataset_json, role_headers, json_in_pa_format,
                   lookups, fetches, file, error, result, checks_evaluated,
                   class_attributes, earlier_calls>>

\* _convert_input_synthetic_dataset_to_generic_json
ConvertInputSyntheticDatasetToGenericJson ==
    /\ pc = "synthetic_to_generic"
    /\ generic_dataset_json' = ConvertDatasetToGenericInputJson(dataset)
    /\ pc' = "convert_output"
    /\ UNCHANGED <<args, configured_url, dataset, role_headers, json_in_pa_format,
                   lookups, fetches, file, error, result, seed_calls, checks_evaluated,
                   class_attributes, earlier_calls>>

\* The class attributes once the formatter of the call's output format has filled
\* the object its _create_empty_*_pa_json returned: the two openai formats start
\* from the openai template, vllm and trtllm each from their own.
TemplatesAfterConversion ==
    /\ EMPTY_JSON_IN_OPENAI_PA_FORMAT' =
           IF args.output_format \in {"OPENAI_CHAT_COMPLETIONS", "OPENAI_COMPLETIONS"}
           THEN TemplateAfterFilling(EMPTY_JSON_IN_OPENAI_PA_FORMAT, json_in_pa_format')
           ELSE EMPTY_JSON_IN_OPENAI_PA_FORMAT
    /\ EMPTY_JSON_IN_VLLM_PA_FORMAT' =
           IF args.output_format = "VLLM"
           THEN TemplateAfterFilling(EMPTY_JSON_IN_VLLM_PA_FORMAT, json_in_pa_format')
           ELSE EMPTY_JSON_IN_VLLM_PA_FORMAT
    /\ EMPTY_JSON_IN_TRTLLM_PA_FORMAT' =
           IF args.output_format \in {"OPENAI_CHAT_COMPLETIONS", "OPENAI_COMPLETIONS", "VLLM"}
           THEN EMPTY_JSON_IN_TRTLLM_PA_FORMAT
           ELSE TemplateAfterFilling(EMPTY_JSON_IN_TRTLLM_PA_FORMAT, json_in_pa_format')

\* The variant whose dispatch has no else branch that raises.
ConvertGenericJsonAnyFormat ==
    /\ pc = "convert_output"
    /\ role_headers' = DetermineJsonFeatureRoles(generic_dataset_json)
    /\ json_in_pa_format' = ConvertGenericJsonToOutputFormat(
                                args.output_format, generic_dataset_json,
                                args.add_model_name, args.add_stream, args.model_name)
    /\ TemplatesAfterConversion
    /\ pc' = "write"
    /\ UNCHANGED <<args, configured_url, dataset, generic_dataset_json,
                   lookups, fetches, file, error, result, seed_calls, checks_evaluated,
                   dataset_url_map, earlier_calls>>

\* _convert_generic_json_to_output_format
ConvertGenericJson ==
    /\ pc = "convert_output"
    /\ IF args.output_format \in OutputFormat
       THEN /\ role_headers' = DetermineJsonFeatureRoles(generic_dataset_json)
            /\ json_in_pa_format' = ConvertGenericJsonToOutputFormat(
                                        args.output_format, generic_dataset_json,
                                        args.add_model_name, args.add_stream,
                                        args.model_name)
            /\ TemplatesAfterConversion
            /\ pc' = "write"
            /\ UNCHANGED error
       ELSE /\ Raise("Output format {output_format} is not currently supported")
            /\ UNCHANGED <<role_headers, json_in_pa_format, EMPTY_JSON_IN_VLLM_PA_FORMAT,
                           EMPTY_JSON_IN_TRTLLM_PA_FORMAT, EMPTY_JSON_IN_OPENAI_PA_FORMAT>>
    /\ UNCHANGED <<args, configured_url, dataset, generic_dataset_json,
                   lookups, fetches, file, result, seed_calls, checks_evaluated,
                   dataset_url_map, earlier_calls>>

\* _write_json_to_file, then return json_in_pa_format.
WriteJsonToFileAndReturn ==
    /\ pc = "write"
    /\ file' = json_in_pa_format
    /\ result' = json_in_pa_format
    /\ pc' = "done"
    /\ UNCHANGED <<args, configured_url, dataset, generic_dataset_json, role_headers,
                   json_in_pa_format, lookups, fetches, error, seed_calls, checks_evaluated,
                   class_attributes, earlier_calls>>

Next ==
    \/ CreateLlmInputs
    \/ CheckForValidArgs
    \/ SelectSource
    \/ ResolveUrl
    \/ QueryServer
    \/ ConvertInputUrlDatasetToGenericJson
    \/ GetInputDatasetFromSynthetic
    \/ ConvertInputSyntheticDatasetToGenericJson
    \/ ConvertGenericJson
    \/ WriteJsonToFileAndReturn

Spec == Init /\ [][Next]_vars

(***************************************************************************)
(* Role classification on its own: _determine_json_feature_roles applied to *)
(* a generic dataset with any list of feature names, or with no features   *)
(* key.                                                                    *)
(***************************************************************************)
RoleInputs ==
    {[features |-> f, rows |-> <<>>] : f \in SeqsUpTo(FeatureNames, MaxFeatures)}
    \cup {[rows |-> <<>>]}

InitRoles ==
    /\ pc = "roles_call"
    /\ generic_dataset_json \in RoleInputs
    /\ args = None
    /\ configured_url = None
    /\ dataset = None
    /\ role_headers = None
    /\ json_in_pa_format = None
    /\ lookups = 0
    /\ fetches = 0
    /\ file = None
    /\ error = ""
    /\ result = None
    /\ seed_calls = <<>>
    /\ checks_evaluated = <<>>
    /\ EMPTY_JSON_IN_VLLM_PA_FORMAT = [data |-> <<>>]
    /\ EMPTY_JSON_IN_TRTLLM_PA_FORMAT = [data |-> <<>>]
    /\ EMPTY_JSON_IN_OPENAI_PA_FORMAT = [data |-> <<>>]
    /\ dataset_url_map = (OPEN_ORCA :> OPEN_ORCA_URL) @@ (CNN_DAILY_MAIL :> CNN_DAILYMAIL_URL)
    /\ calls = 0
    /\ first_call = None
    /\ other_since = FALSE

DetermineRoles ==
    /\ pc = "roles_call"
    /\ role_headers' = DetermineJsonFeatureRoles(generic_dataset_json)
    /\ pc' = "roles_done"
    /\ UNCHANGED <<args, configured_url, dataset, generic_dataset_json,
                   json_in_pa_format, lookups, fetches, file, error, result, seed_calls, checks_evaluated,
                   class_attributes, earlier_calls>>

NextRoles == DetermineRoles

SpecRoles == InitRoles /\ [][NextRoles]_vars

(***************************************************************************)
(* A process that calls create_llm_inputs again and again, up to MaxCalls  *)
(* calls after the first.  The class attributes are what a call finds as   *)
(* the earlier calls left them.  The arguments cover the two sources, the  *)
(* four formats and an unsupported one, a dataset name the registry lacks  *)
(* and a length that is too small; the server answers with rows of one     *)
(* question or with an error.                                              *)
(***************************************************************************)
MaxCalls == 2

SequenceArgs ==
    [input_type : {"URL"}, output_format : OutputFormats,
     dataset_name : {OPEN_ORCA, "unknown_dataset"}, model_name : ModelNames,
     starting_index : {IntArg(DEFAULT_STARTING_INDEX)},
     length : {IntArg(0), IntArg(DEFAULT_LENGTH)},
     prompt_tokens_mean : {DEFAULT_PROMPT_TOKENS_MEAN},
     prompt_tokens_stddev : {DEFAULT_PROMPT_TOKENS_STDDEV},
     expected_output_tokens : {DEFAULT_EXPECTED_OUTPUT_TOKENS},
     random_seed : {DEFAULT_RANDOM_SEED},
     num_of_output_prompts : {DEFAULT_NUM_OF_OUTPUT_PROMPTS},
     add_model_name : {TRUE}, add_stream : {TRUE}]
    \cup
    [input_type : {"SYNTHETIC"}, output_format : OutputFormats,
     dataset_name : {""}, model_name : ModelNames,
     starting_index : {IntArg(DEFAULT_STARTING_INDEX)},
     length : {IntArg(DEFAULT_LENGTH)},
     prompt_tokens_mean : {DEFAULT_PROMPT_TOKENS_MEAN},
     prompt_tokens_stddev : {DEFAULT_PROMPT_TOKENS_STDDEV},
     expected_output_tokens : {DEFAULT_EXPECTED_OUTPUT_TOKENS},
     random_seed : {DEFAULT_RANDOM_SEED},
     num_of_output_prompts : 1..MaxPrompts,
     add_model_name : {TRUE}, add_stream : {TRUE}]

SequenceServedJson ==
    {[features |-> <<[name |-> "question"]>>,
      rows |-> [k \in 1..n |-> [row |-> <<[header |-> "question", content |-> "world"]>>]]] :
         n \in 0..MaxRows}
    \cup {[error |-> "The dataset does not exist."]}

CreateLlmInputsInSequence == CreateLlmInputsWith(SequenceArgs)
QueryServerInSequence == QueryServerAnswering(SequenceServedJson)

\* The call has ended, by return or by an exception: its locals are gone and the
\* caller may call again.  The class attributes stay as the call left them.  The
\* first call that returned is remembered with the collection it returned.
NextCall ==
    /\ pc \in {"done", "failed"}
    /\ calls < MaxCalls
    /\ calls' = calls + 1
    /\ first_call' = IF first_call = None /\ pc = "done"
                     THEN [args |-> args, dataset |-> dataset, result |-> result]
                     ELSE first_call
    /\ other_since' = IF first_call = None THEN FALSE
                      ELSE other_since \/ args # first_call.args \/ dataset # first_call.dataset
    /\ pc' = "idle"
    /\ args' = None
    /\ configured_url' = None
    /\ dataset' = None
    /\ generic_dataset_json' = None
    /\ role_headers' = None
    /\ json_in_pa_format' = None
    /\ lookups' = 0
    /\ fetches' = 0
    /\ file' = None
    /\ error' = ""
    /\ result' = None
    /\ seed_calls' = <<>>
    /\ checks_evaluated' = <<>>
    /\ UNCHANGED class_attributes

NextCalls ==
    \/ CreateLlmInputsInSequence
    \/ CheckForValidArgs
    \/ SelectSource
    \/ ResolveUrl
    \/ QueryServerInSequence
    \/ ConvertInputUrlDatasetToGenericJson
    \/ GetInputDatasetFromSynthetic
    \/ ConvertInputSyntheticDatasetToGenericJson
    \/ ConvertGenericJson
    \/ WriteJsonToFileAndReturn
    \/ NextCall

SpecCalls == Init /\ [][NextCalls]_vars

(***************************************************************************)
(* Vocabulary of the properties.                                           *)
(***************************************************************************)
\* The conversion to the output format has produced the collection.
Formatted == pc \in {"write", "done"}
GenericRows == generic_dataset_json["rows"]
\* The headers _determine_json_feature_roles put in some role.
IsRoleClassified(header) ==
    \/ InList(header, role_headers.system)
    \/ InList(header, role_headers.user)
    \/ InList(header, role_headers.text_input)
\* The text field of a payload of the three text-accumulating formats.
TextFieldOf(output_format, payload) ==
    IF output_format = "OPENAI_COMPLETIONS" THEN payload.payload[1].prompt
    ELSE payload.text_input
\* The object the optional tags are put in.
TagHolderOf(output_format, payload) ==
    IF output_format \in {"OPENAI_CHAT_COMPLETIONS", "OPENAI_COMPLETIONS"}
    THEN payload.payload[1] ELSE payload

RECURSIVE JoinWithOneSpace(_)
JoinWithOneSpace(texts) ==
    IF texts = <<>> THEN ""
    ELSE IF Len(texts) = 1 THEN texts[1]
    ELSE texts[1] \o " " \o JoinWithOneSpace(Tail(texts))

ContentsOf(entries) == [k \in 1..Len(entries) |-> entries[k].content]

(***************************************************************************)
(* C1: for every formatter the collection has exactly one payload per row, *)
(* in row order, and payload i is what the same conversion gives for the   *)
(* dataset that holds row i alone: no other row has a part in it.          *)
(***************************************************************************)
RowOrderPreserved ==
    Formatted =>
        /\ Len(json_in_pa_format.data) = Len(GenericRows)
        /\ \A i \in 1..Len(GenericRows) :
              json_in_pa_format.data[i] =
                  ConvertGenericJsonToOutputFormat(
                      args.output_format,
                      SetKey(generic_dataset_json, "rows", <<GenericRows[i]>>),
                      args.add_model_name, args.add_stream, args.model_name).data[1]

\* Two different rows have given two different payloads, in their order.
RowOrderWitness ==
    /\ pc = "done"
    /\ Len(GenericRows) = 2
    /\ GenericRows[1] # GenericRows[2]
    /\ Len(result.data) = 2
    /\ result.data[1] # result.data[2]

(***************************************************************************)
(* C3: for completions, vllm and trtllm the text field of payload i is the *)
(* one-element list holding the non-empty values of row i's role-classified*)
(* headers, in the row's order, joined by single spaces ("" when there is  *)
(* none).                                                                  *)
(***************************************************************************)
TextContributions(entry) ==
    SelectSeq(entry, LAMBDA e : IsRoleClassified(e.header) /\ e.content # "")

TextFieldIsSpaceJoin ==
    (Formatted /\ args.output_format \in {"OPENAI_COMPLETIONS", "VLLM", "TRTLLM"}) =>
        \A i \in 1..Len(GenericRows) :
            TextFieldOf(args.output_format, json_in_pa_format.data[i]) =
                <<JoinWithOneSpace(ContentsOf(TextContributions(GenericRows[i])))>>

\* [system_prompt: "hello", question: "world"] gave "hello world" and
\* [system_prompt: "", question: "world"] gave "world".
TextFieldWitness ==
    /\ pc = "done"
    /\ args.output_format = "VLLM"
    /\ GenericRows = <<
           <<[header |-> "system_prompt", content |-> "hello"],
             [header |-> "question", content |-> "world"]>>,
           <<[header |-> "system_prompt", content |-> ""],
             [header |-> "question", content |-> "world"]>> >>
    /\ result.data[1].text_input = <<"hello world">>
    /\ result.data[2].text_input = <<"world">>

(***************************************************************************)
(* C4: for chat-completions the messages of payload i are, in the row's    *)
(* order, one message per header of row i that is in the system or user    *)
(* role and has non-empty content, with that role and that content; no     *)
(* other header gives a message.                                           *)
(***************************************************************************)
MessageContributions(entry) ==
    SelectSeq(entry, LAMBDA e :
        /\ e.content # ""
        /\ InList(e.header, role_headers.system) \/ InList(e.header, role_headers.user))

ExpectedMessages(entry) ==
    LET c == MessageContributions(entry)
    IN  [k \in 1..Len(c) |->
            [role |-> IF InList(c[k].header, role_headers.system) THEN "system" ELSE "user",
             content |-> c[k].content]]

ChatMessagesAreContributions ==
    (Formatted /\ args.output_format = "OPENAI_CHAT_COMPLETIONS") =>
        \A i \in 1..Len(GenericRows) :
            /\ Len(json_in_pa_format.data[i].payload) = 1
            /\ json_in_pa_format.data[i].payload[1].messages =
                   ExpectedMessages(GenericRows[i])

\* A row whose only role-classified header is empty gave no message, and a row
\* with a system and a user header gave the two messages in the row's order.
ChatMessagesWitness ==
    /\ pc = "done"
    /\ args.output_format = "OPENAI_CHAT_COMPLETIONS"
    /\ Len(GenericRows) = 2
    /\ GenericRows[1] = <<[header |-> "question", content |-> ""],
                          [header |-> "id", content |-> "7"]>>
    /\ IsRoleClassified("question")
    /\ result.data[1].payload[1].messages = <<>>
    /\ GenericRows[2] = <<[header |-> "question", content |-> "world"],
                          [header |-> "id", content |-> "7"]>>
    /\ result.data[2].payload[1].messages = <<[role |-> "user", content |-> "world"]>>

(***************************************************************************)
(* C5: every trtllm payload has max_tokens = [256] whatever the two flags  *)
(* are, applying the optional tags (with any flags) leaves it as it is, and*)
(* no payload of the other three formats has a max_tokens key.             *)
(***************************************************************************)
TrtllmMaxTokens ==
    Formatted =>
        \A i \in 1..Len(json_in_pa_format.data) :
            IF args.output_format = "TRTLLM"
            THEN /\ "max_tokens" \in DOMAIN json_in_pa_format.data[i]
                 /\ json_in_pa_format.data[i]["max_tokens"] = <<DEFAULT_TRTLLM_MAX_TOKENS>>
                 /\ \A m, t \in BOOLEAN :
                        AddOptionalTagsToTrtllmJson(json_in_pa_format, i - 1, m, t,
                                                    args.model_name).data[i]["max_tokens"]
                            = <<DEFAULT_TRTLLM_MAX_TOKENS>>
            ELSE /\ "max_tokens" \notin DOMAIN json_in_pa_format.data[i]
                 /\ "max_tokens" \notin DOMAIN TagHolderOf(args.output_format,
                                                          json_in_pa_format.data[i])

\* A trtllm run with both optional tags on returned payloads.
TrtllmMaxTokensWitness ==
    /\ pc = "done"
    /\ args.output_format = "TRTLLM"
    /\ args.add_model_name /\ args.add_stream
    /\ Len(result.data) = 2
    /\ result.data[2]["max_tokens"] = <<DEFAULT_TRTLLM_MAX_TOKENS>>
    /\ result.data[2]["stream"] = <<TRUE>>

(***************************************************************************)
(* C6: in every payload the model key is present exactly when              *)
(* add_model_name is set, and then holds model_name; the stream key is     *)
(* present exactly when add_stream is set, and then holds true inside      *)
(* payload[0] for the two openai formats and [true] at the top level of the*)
(* payload for vllm and trtllm.                                            *)
(***************************************************************************)
OptionalTagsFollowFlags ==
    Formatted =>
        \A i \in 1..Len(json_in_pa_format.data) :
            LET holder == TagHolderOf(args.output_format, json_in_pa_format.data[i])
                openai == args.output_format \in {"OPENAI_CHAT_COMPLETIONS", "OPENAI_COMPLETIONS"}
            IN  /\ ("model" \in DOMAIN holder) <=> args.add_model_name
                /\ args.add_model_name => holder["model"] = args.model_name
                /\ ("stream" \in DOMAIN holder) <=> args.add_stream
                /\ args.add_stream =>
                       holder["stream"] = (IF openai THEN TRUE ELSE <<TRUE>>)
                /\ openai => DOMAIN json_in_pa_format.data[i] = {"payload"}

\* vllm with add_model_name and without add_stream: model present, no stream key.
OptionalTagsWitness ==
    /\ pc = "done"
    /\ args.output_format = "VLLM"
    /\ args.add_model_name /\ ~args.add_stream
    /\ Len(result.data) = 1
    /\ result.data[1]["model"] = "gpt2"
    /\ "stream" \notin DOMAIN result.data[1]
    /\ result.data[1].text_input # <<"">>

(***************************************************************************)
(* C7: role classification gives, for any list of feature names, the       *)
(* features equal to system_prompt as the system headers, the features in  *)
(* {question, article, text_input} as the user headers, both in feature    *)
(* order, and no text-input header; any other name is in none of the three.*)
(***************************************************************************)
RoleClassificationIsTotal ==
    pc = "roles_done" =>
        LET features == IF "features" \in DOMAIN generic_dataset_json
                        THEN generic_dataset_json["features"] ELSE <<>>
        IN  /\ role_headers.system = SelectSeq(features, LAMBDA f : f = "system_prompt")
            /\ role_headers.user =
                   SelectSeq(features, LAMBDA f : f \in {"question", "article", "text_input"})
            /\ role_headers.text_input = <<>>
            /\ \A k \in 1..Len(features) :
                   features[k] \notin {"system_prompt", "question", "article", "text_input"}
                       => ~IsRoleClassified(features[k])

\* text_input was classified as a user header, after article, and id as nothing.
RoleClassificationWitness ==
    /\ pc = "roles_done"
    /\ "features" \in DOMAIN generic_dataset_json
    /\ generic_dataset_json["features"] = <<"article", "id", "text_input">>
    /\ role_headers.user = <<"article", "text_input">>
    /\ role_headers.system = <<>>

(***************************************************************************)
(* Vocabulary of the properties about failures.                            *)
(***************************************************************************)
\* The arguments break a rule of the validation.
ArgumentViolation(a) ==
    \/ a.input_type = "URL" /\ a.dataset_name = ""
    \/ ~a.starting_index.isint
    \/ a.starting_index.isint /\ a.starting_index.val < 0
    \/ ~a.length.isint
    \/ a.length.isint /\ a.length.val < 1

\* The messages _check_for_valid_args raises with.
ArgumentErrors ==
    {"Input type is URL, but dataset_name is not specified.",
     "starting_index: {starting_index} must be an integer.",
     "starting_index: {starting_index} must be larger than 0.",
     "length: {length} must be an integer.",
     "starting_index: {length} must be larger than 1."}

UnknownDatasetError ==
    "{dataset_name} does not have a corresponding URL in the dataset_url_map."

\* The URL input source with a non-empty dataset name the registry lacks.
UnknownDataset(a) ==
    /\ a.input_type = "URL"
    /\ a.dataset_name # ""
    /\ a.dataset_name \notin DOMAIN dataset_url_map

NothingProduced ==
    /\ json_in_pa_format = None
    /\ file = None
    /\ result = None

(***************************************************************************)
(* C2: once validation has run, arguments that break no rule have passed it*)
(* (no argument error), and arguments that break one have ended the call   *)
(* with an argument error and nothing done: no registry lookup, no fetch,  *)
(* no dataset, no collection, no file.                                     *)
(***************************************************************************)
ValidationHasNoSideEffects ==
    pc \notin {"idle", "check_args"} =>
        IF ArgumentViolation(args)
        THEN /\ pc = "failed"
             /\ error \in ArgumentErrors
             /\ lookups = 0
             /\ fetches = 0
             /\ dataset = None
             /\ NothingProduced
        ELSE error \notin ArgumentErrors

\* A length that is no integer, all else valid, ended the call before any fetch.
ValidationWitness ==
    /\ pc = "failed"
    /\ args.input_type = "URL"
    /\ args.dataset_name = OPEN_ORCA
    /\ args.starting_index = IntArg(DEFAULT_STARTING_INDEX)
    /\ args.length = NotAnInt
    /\ error = "length: {length} must be an integer."
    /\ fetches = 0
    /\ file = None

(***************************************************************************)
(* C8 as stated: with the URL source and a non-empty dataset name that is  *)
(* not in the registry, the call ends with the unknown-dataset error and no*)
(* fetch.                                                                  *)
(***************************************************************************)
UnknownDatasetAlwaysRaisesUnknownDataset ==
    (pc \in {"failed", "done"} /\ UnknownDataset(args)) =>
        /\ pc = "failed"
        /\ error = UnknownDatasetError
        /\ fetches = 0

(***************************************************************************)
(* C8 amended: with the URL source, a non-empty dataset name that is not in*)
(* the registry and a valid starting_index and length, the call ends with  *)
(* the unknown-dataset error after one registry lookup and no fetch (with  *)
(* an invalid starting_index or length it ends with the argument error,    *)
(* before the lookup); a fetch is always preceded by a successful lookup.  *)
(***************************************************************************)
UnknownDatasetRaisesBeforeFetch ==
    /\ (pc # "idle" /\ UnknownDataset(args)) =>
           /\ fetches = 0
           /\ pc \in {"check_args", "select_source", "resolve_url", "failed"}
           /\ pc = "failed" =>
                  IF ArgumentViolation(args)
                  THEN error \in ArgumentErrors /\ lookups = 0
                  ELSE error = UnknownDatasetError /\ lookups = 1
    /\ fetches > 0 =>
           /\ lookups > 0
           /\ args.dataset_name \in DOMAIN dataset_url_map

\* The lookup of an unknown name failed: one lookup, no fetch.
UnknownDatasetWitness ==
    /\ pc = "failed"
    /\ UnknownDataset(args)
    /\ ~ArgumentViolation(args)
    /\ error = UnknownDatasetError
    /\ lookups = 1
    /\ fetches = 0

(***************************************************************************)
(* C9: a failed call has produced nothing: no collection was built or      *)
(* returned and the file was not written.  Whenever a reason to fail is    *)
(* there (invalid argument, unknown dataset, file source, unsupported      *)
(* format, error payload, an exception raised) nothing has been produced.  *)
(* The file is written only by the run that returns the collection.        *)
(***************************************************************************)
FailureReason ==
    \/ error # ""
    \/ ArgumentViolation(args)
    \/ UnknownDataset(args)
    \/ args.input_type = "FILE"
    \/ args.output_format \notin OutputFormat
    \/ "error" \in DOMAIN dataset

FailureProducesNothing ==
    /\ pc = "failed" => error # "" /\ NothingProduced
    /\ (pc # "idle" /\ FailureReason) => pc # "done" /\ NothingProduced
    /\ file # None => pc = "done" /\ result = file /\ file = json_in_pa_format
    /\ result # None => file = result

\* An unsupported output format failed after the fetch, before any write.
FailureWitness ==
    /\ pc = "failed"
    /\ args.output_format \notin OutputFormat
    /\ fetches = 1
    /\ generic_dataset_json # None
    /\ Len(GenericRows) = 2
    /\ error = "Output format {output_format} is not currently supported"
    /\ NothingProduced

(***************************************************************************)
(* C10 as stated: a raw dataset without a features key gives a generic     *)
(* dataset with an empty features list, and then one payload per row with  *)
(* no contributed content.                                                 *)
(***************************************************************************)
NoFeaturesKey ==
    /\ generic_dataset_json # None
    /\ "features" \notin DOMAIN dataset

NoContributedContent(output_format, payload) ==
    IF output_format = "OPENAI_CHAT_COMPLETIONS"
    THEN payload.payload[1].messages = <<>>
    ELSE TextFieldOf(output_format, payload) = <<"">>

OnePayloadPerRowWithoutContent ==
    Formatted =>
        /\ Len(json_in_pa_format.data) = Len(GenericRows)
        /\ \A i \in 1..Len(GenericRows) :
               NoContributedContent(args.output_format, json_in_pa_format.data[i])

MissingFeaturesGiveEmptyList ==
    NoFeaturesKey =>
        /\ "features" \in DOMAIN generic_dataset_json
        /\ generic_dataset_json["features"] = <<>>
        /\ OnePayloadPerRowWithoutContent

(***************************************************************************)
(* C10 amended: a raw dataset without a features key gives a generic       *)
(* dataset that has no features key either and carries the rows; this is no*)
(* error: role classification then returns three empty lists and the       *)
(* conversion gives one payload per row with no contributed content.       *)
(***************************************************************************)
MissingFeaturesStayMissing ==
    NoFeaturesKey =>
        /\ DOMAIN generic_dataset_json = {"rows"}
        /\ GenericRows = RowsOf(dataset["rows"])
        /\ pc = "failed" => args.output_format \notin OutputFormat
        /\ Formatted =>
               role_headers = [system |-> <<>>, user |-> <<>>, text_input |-> <<>>]
        /\ OnePayloadPerRowWithoutContent

\* Rows with a question column but no declared features gave an empty payload.
MissingFeaturesWitness ==
    /\ pc = "done"
    /\ NoFeaturesKey
    /\ args.output_format = "OPENAI_CHAT_COMPLETIONS"
    /\ GenericRows = << <<[header |-> "question", content |-> "world"]>> >>
    /\ result.data[1].payload[1].messages = <<>>

(***************************************************************************)
(* C11: with the synthetic source and num_of_output_prompts = n the        *)
(* generator has been invoked exactly n times, with the seeds random_seed, *)
(* random_seed + 1, ..., random_seed + n - 1 in that order; the dataset has*)
(* the single feature text_input and exactly n rows, row i holding only    *)
(* text_input with the prompt of invocation i; and for chat-completions the*)
(* collection has exactly n entries, entry i with one payload whose        *)
(* messages are the one user message with that prompt (a prompt that is not*)
(* empty).  No other source invokes the generator.                         *)
(***************************************************************************)
\* The prompt the generator returns at its index-th invocation (0-based) of this call.
GeneratedPrompt(index) ==
    CreateSyntheticPrompt(args.prompt_tokens_mean, args.prompt_tokens_stddev,
                          args.expected_output_tokens, args.random_seed + index)

SyntheticGivesOneUserMessagePerPrompt ==
    /\ (pc # "idle" /\ args.input_type # "SYNTHETIC") => seed_calls = <<>>
    /\ (pc # "idle" /\ args.input_type = "SYNTHETIC" /\ dataset = None) => seed_calls = <<>>
    /\ (pc # "idle" /\ args.input_type = "SYNTHETIC" /\ dataset # None) =>
           LET n == args.num_of_output_prompts
           IN  /\ seed_calls = [k \in 1..n |-> args.random_seed + (k - 1)]
               /\ dataset["features"] = <<[name |-> "text_input"]>>
               /\ Len(dataset["rows"]) = n
               /\ \A k \in 1..n :
                      dataset["rows"][k] =
                          [row |-> <<[header |-> "text_input", content |-> GeneratedPrompt(k - 1)]>>]
               /\ generic_dataset_json # None =>
                      /\ generic_dataset_json["features"] = <<"text_input">>
                      /\ Len(GenericRows) = n
                      /\ \A k \in 1..n :
                             /\ Len(GenericRows[k]) = 1
                             /\ GenericRows[k][1].header = "text_input"
               /\ (Formatted /\ args.output_format = "OPENAI_CHAT_COMPLETIONS") =>
                      /\ Len(json_in_pa_format.data) = n
                      /\ \A k \in 1..n :
                             /\ Len(json_in_pa_format.data[k].payload) = 1
                             /\ GeneratedPrompt(k - 1) # "" =>
                                    json_in_pa_format.data[k].payload[1].messages =
                                        <<[role |-> "user", content |-> GeneratedPrompt(k - 1)]>>

\* Two prompts from seed 1: the generator ran with seeds 1 and 2 and the two
\* entries hold the two prompts, each as the one user message.
SyntheticWitness ==
    /\ pc = "done"
    /\ args.input_type = "SYNTHETIC"
    /\ args.output_format = "OPENAI_CHAT_COMPLETIONS"
    /\ args.num_of_output_prompts = 2
    /\ args.random_seed = DEFAULT_RANDOM_SEED + 1
    /\ seed_calls = <<1, 2>>
    /\ Len(result.data) = 2
    /\ result.data[1].payload[1].messages = <<[role |-> "user", content |-> "beta"]>>
    /\ result.data[2].payload[1].messages = <<[role |-> "user", content |-> "gamma"]>>

(***************************************************************************)
(* C13: validation evaluates its checks in the order dataset name (for the *)
(* URL source), starting_index, length, and stops at the first that fails: *)
(* the error raised is the one of the earliest failing check, whatever the *)
(* later arguments are, and the checks after it have not been evaluated.   *)
(* When all pass, the three have been evaluated in that order.             *)
(***************************************************************************)
DatasetNameMissing(a) == a.input_type = "URL" /\ a.dataset_name = ""
StartingIndexInvalid(a) == ~a.starting_index.isint \/ a.starting_index.val < MINIMUM_STARTING_INDEX
LengthInvalid(a) == ~a.length.isint \/ a.length.val < MINIMUM_LENGTH

ValidationOrderFailFast ==
    /\ pc \in {"idle", "check_args"} => checks_evaluated = <<>>
    /\ pc \notin {"idle", "check_args"} =>
           IF DatasetNameMissing(args)
           THEN /\ pc = "failed"
                /\ error = "Input type is URL, but dataset_name is not specified."
                /\ checks_evaluated = <<"_check_for_dataset_name_if_input_type_is_url">>
           ELSE IF StartingIndexInvalid(args)
           THEN /\ pc = "failed"
                /\ error = (IF ~args.starting_index.isint
                            THEN "starting_index: {starting_index} must be an integer."
                            ELSE "starting_index: {starting_index} must be larger than 0.")
                /\ checks_evaluated = <<"_check_for_dataset_name_if_input_type_is_url",
                                        "_check_for_valid_starting_index">>
           ELSE /\ checks_evaluated = <<"_check_for_dataset_name_if_input_type_is_url",
                                        "_check_for_valid_starting_index",
                                        "_check_for_valid_length">>
                /\ IF LengthInvalid(args)
                   THEN /\ pc = "failed"
                        /\ error \in {"length: {length} must be an integer.",
                                      "starting_index: {length} must be larger than 1."}
                        /\ (error = "length: {length} must be an integer.") <=> ~args.length.isint
                   ELSE error \notin ArgumentErrors

\* The three arguments are invalid at once: the dataset-name error was raised and
\* the two later checks were not evaluated.
ValidationOrderWitness ==
    /\ pc = "failed"
    /\ DatasetNameMissing(args)
    /\ args.starting_index = IntArg(-1)
    /\ args.length = NotAnInt
    /\ error = "Input type is URL, but dataset_name is not specified."
    /\ checks_evaluated = <<"_check_for_dataset_name_if_input_type_is_url">>

(***************************************************************************)
(* C14: for every formatter a row header contributes only if it is declared*)
(* in the features of the dataset and its name is in the role vocabulary.  *)
(* Any other row key (one absent from features, whatever its name, or one  *)
(* declared but outside the vocabulary) contributes nothing: each payload  *)
(* returned is what the same conversion gives for the row without those    *)
(* keys, and a row that has only such keys gives no message and an empty   *)
(* text field.                                                             *)
(* Their presence causes no failure: once the generic dataset is built the *)
(* call fails only for an unsupported output format.                       *)
(***************************************************************************)
InRoleVocabulary(header) ==
    \/ InList(header, SYSTEM_ROLE_LIST)
    \/ InList(header, USER_ROLE_LIST)
    \/ InList(header, TEXT_INPUT_LIST)

DeclaredAndClassified(header) ==
    /\ "features" \in DOMAIN generic_dataset_json
    /\ InList(header, generic_dataset_json["features"])
    /\ InRoleVocabulary(header)

WithoutOtherHeaders(entry) == SelectSeq(entry, LAMBDA e : DeclaredAndClassified(e.header))

OnlyDeclaredClassifiedHeadersContribute ==
    /\ pc = "done" =>
           \A i \in 1..Len(GenericRows) :
               /\ result.data[i] =
                      ConvertGenericJsonToOutputFormat(
                          args.output_format,
                          SetKey(generic_dataset_json, "rows",
                                 <<WithoutOtherHeaders(GenericRows[i])>>),
                          args.add_model_name, args.add_stream, args.model_name).data[1]
               /\ WithoutOtherHeaders(GenericRows[i]) = <<>> =>
                      NoContributedContent(args.output_format, result.data[i])
    /\ (pc = "failed" /\ generic_dataset_json # None) =>
           /\ args.output_format \notin OutputFormat
           /\ error = "Output format {output_format} is not currently supported"

\* Only id is declared: the question the row holds is not, and id is outside the
\* vocabulary; the text field stayed empty and the call returned.
UndeclaredHeaderWitness ==
    /\ pc = "done"
    /\ args.output_format = "VLLM"
    /\ "features" \in DOMAIN generic_dataset_json
    /\ generic_dataset_json["features"] = <<"id">>
    /\ GenericRows = << <<[header |-> "question", content |-> "world"],
                          [header |-> "id", content |-> "7"]>> >>
    /\ result.data[1].text_input = <<"">>

(***************************************************************************)
(* C15: the three text-accumulating formatters agree.  When a call returns *)
(* a collection in the completions, vllm or trtllm format, the three       *)
(* conversions of its generic dataset, with its flags, have one payload per*)
(* row, and for every row the prompt of the completions payload and the    *)
(* text_input of the vllm and trtllm payloads are the same one-element     *)
(* list; the trtllm payload is the vllm payload with max_tokens added,     *)
(* which the vllm payload does not have.  The collection returned is the   *)
(* conversion in the format of the call.                                   *)
(***************************************************************************)
CompletionsOfCall ==
    IF args.output_format = "OPENAI_COMPLETIONS" THEN result
    ELSE ConvertGenericJsonToOpenaiCompletionsFormat(
             generic_dataset_json, args.add_model_name, args.add_stream, args.model_name)
VllmOfCall ==
    IF args.output_format = "VLLM" THEN result
    ELSE ConvertGenericJsonToVllmFormat(
             generic_dataset_json, args.add_model_name, args.add_stream, args.model_name)
TrtllmOfCall ==
    IF args.output_format = "TRTLLM" THEN result
    ELSE ConvertGenericJsonToTrtllmFormat(
             generic_dataset_json, args.add_model_name, args.add_stream, args.model_name)

TextFormattersAgree ==
    (pc = "done" /\ args.output_format \in {"OPENAI_COMPLETIONS", "VLLM", "TRTLLM"}) =>
        LET completions == CompletionsOfCall
            vllm == VllmOfCall
            trtllm == TrtllmOfCall
        IN  /\ Len(completions.data) = Len(GenericRows)
            /\ Len(vllm.data) = Len(GenericRows)
            /\ Len(trtllm.data) = Len(GenericRows)
            /\ \A i \in 1..Len(GenericRows) :
                   /\ DOMAIN completions.data[i] = {"payload"}
                   /\ Len(completions.data[i].payload) = 1
                   /\ Len(completions.data[i].payload[1].prompt) = 1
                   /\ Len(vllm.data[i].text_input) = 1
                   /\ Len(trtllm.data[i].text_input) = 1
                   /\ completions.data[i].payload[1].prompt[1] = vllm.data[i].text_input[1]
                   /\ vllm.data[i].text_input[1] = trtllm.data[i].text_input[1]
                   /\ "max_tokens" \notin DOMAIN vllm.data[i]
                   /\ "max_tokens" \in DOMAIN trtllm.data[i]
                   /\ trtllm.data[i] =
                          SetKey(vllm.data[i], "max_tokens", trtllm.data[i]["max_tokens"])

\* A trtllm call with both flags returned "hello world" for a row; completions
\* and vllm give the same text for it, and vllm the same payload less max_tokens.
TextFormattersWitness ==
    /\ pc = "done"
    /\ args.output_format = "TRTLLM"
    /\ args.add_model_name /\ args.add_stream
    /\ Len(GenericRows) = 2
    /\ result.data[2].text_input = <<"hello world">>
    /\ CompletionsOfCall.data[2].payload[1].prompt = <<"hello world">>
    /\ VllmOfCall.data[2] = [text_input |-> <<"hello world">>, model |-> "gpt2", stream |-> <<TRUE>>]
    /\ result.data[2] = [text_input |-> <<"hello world">>, model |-> "gpt2", stream |-> <<TRUE>>,
                         max_tokens |-> <<DEFAULT_TRTLLM_MAX_TOKENS>>]

(***************************************************************************)
(* C12: nothing persists across calls.  After any sequence of calls, in any*)
(* formats, returned or failed, each of the three templates is {"data": []}*)
(* and the URL registry maps the two dataset names to their URLs, as at the*)
(* start; and a call that has the arguments and the dataset of an earlier  *)
(* call returns the collection that call returned, whatever calls ended in *)
(* between.                                                                *)
(***************************************************************************)
SameConversionAsFirstCall ==
    /\ first_call # None
    /\ pc = "done"
    /\ args = first_call.args
    /\ dataset = first_call.dataset

NothingPersistsAcrossCalls ==
    /\ EMPTY_JSON_IN_VLLM_PA_FORMAT = [data |-> <<>>]
    /\ EMPTY_JSON_IN_TRTLLM_PA_FORMAT = [data |-> <<>>]
    /\ EMPTY_JSON_IN_OPENAI_PA_FORMAT = [data |-> <<>>]
    /\ DOMAIN dataset_url_map = {OPEN_ORCA, CNN_DAILY_MAIL}
    /\ dataset_url_map[OPEN_ORCA] = OPEN_ORCA_URL
    /\ dataset_url_map[CNN_DAILY_MAIL] = CNN_DAILYMAIL_URL
    /\ SameConversionAsFirstCall => result = first_call.result

\* The third call repeats the first, which returned two vllm payloads, after a
\* call with other arguments or another dataset: it returned the same two payloads.
NothingPersistsWitness ==
    /\ calls = 2
    /\ other_since
    /\ SameConversionAsFirstCall
    /\ args.output_format = "VLLM"
    /\ Len(result.data) = 2
    /\ result = first_call.result

=============================================================================
